---- MODULE Spec2Model ----
(***************************************************************************)
(* Model of the YouTube API client (src/api/youtubeApi.ts, the NetInfo     *)
(* revision starting at line 156) and of the search screen                 *)
(* (src/screens/SearchScreen.tsx, lines 1-270).                            *)
(***************************************************************************)
EXTENDS Integers, Sequences, FiniteSets, TLC

(* ------------------------------------------------------------------ *)
(* Bounds                                                              *)
(* ------------------------------------------------------------------ *)
MaxQueryLen == 2
MaxEvents == 3        \* keystrokes, submits and sort changes of one session
TickMs == 100         \* the largest step of the clock (ms)
MaxInFlight == 2      \* awaited calls that overlap
MaxShortLen == 3       \* length of the longest short text typed into the search field
MaxOverLen == 2        \* characters by which a typed text exceeds the length limit
MaxItems == 37        \* items of the longest list the server answers with

(* ------------------------------------------------------------------ *)
(* Values                                                              *)
(* ------------------------------------------------------------------ *)
\* A query is a sequence of characters; "a" stands for any printable
\* character, " " for whitespace.
Chars == {"a", " "}

RECURSIVE SeqsUpTo(_)
SeqsUpTo(n) ==
  IF n = 0 THEN {<<>>}
  ELSE LET S == SeqsUpTo(n - 1)
       IN  S \cup {Append(s, c) : s \in {t \in S : Len(t) = n - 1}, c \in Chars}

Queries == SeqsUpTo(MaxQueryLen)

\* String.prototype.trim
RECURSIVE TrimLeft(_)
TrimLeft(s) ==
  IF s = <<>> THEN <<>>
  ELSE IF Head(s) = " " THEN TrimLeft(Tail(s)) ELSE s

RECURSIVE TrimRight(_)
TrimRight(s) ==
  IF s = <<>> THEN <<>>
  ELSE IF s[Len(s)] = " " THEN TrimRight(SubSeq(s, 1, Len(s) - 1)) ELSE s

Trim(s) == TrimRight(TrimLeft(s))

\* the fallback query of searchVideos / getPopularVideos
DefaultQuery == <<"p", "t">>

\* boolean | null of NetInfoState
Tri == {"true", "false", "null"}

\* what NetInfo.fetch() does: it resolves with a state, or it throws
NetInfoStates ==
  [isConnected : Tri, isInternetReachable : Tri, throws : {FALSE}]
    \cup [isConnected : {"null"}, isInternetReachable : {"null"}, throws : {TRUE}]

\* Constants.expoConfig?.extra?.youtubeApiKey
NoKey == "undefined"
Keys == {"K1", "K2"}
ConfigValues == Keys \cup {NoKey}
Null == "null"

SortOrders == {"date", "rating", "relevance", "title", "viewCount"}
MaxResultsValues == {10, 50}
VideoIds == {"v1", "v2"}

\* SearchScreen.tsx
INITIAL_DISPLAY_COUNT == 10
LOAD_MORE_COUNT == 10
DebounceMs == 500
ScreenMaxResults == 50
SortOptions == {"date", "dateDesc", "viewCount"}

\* item lists the API answers with: none, more than three windows
LongList == [i \in 1..MaxItems |-> i]
ItemLists == {<<>>, LongList}

\* What the HTTP layer (axios.get) does with one request.
Statuses == {400, 401, 403, 404, 429, 500, 503}
HttpOutcomes ==
  [type : {"ok"}, status : {200}, items : ItemLists]
    \cup [type : {"okNoItems"}, status : {200}, items : {<<>>}]
    \cup [type : {"status"}, status : Statuses, items : {<<>>}]
    \cup [type : {"networkError", "timeout"}, status : {0}, items : {<<>>}]

NoResponse == 0

\* the error object axios.get rejects with
AxiosError(http) ==
  CASE http.type = "status" ->
         [code |-> "ERR_BAD_RESPONSE", message |-> "Request failed", response |-> http.status]
    [] http.type = "networkError" ->
         [code |-> "ERR_NETWORK", message |-> "Network Error", response |-> NoResponse]
    [] OTHER ->
         [code |-> "ECONNABORTED", message |-> "timeout exceeded", response |-> NoResponse]

PlainError(msg) == [code |-> "none", message |-> msg, response |-> NoResponse]

MsgNoKey == "YOUTUBE_API_KEY environment variable is not set"
MsgNoInternet == "No internet connection. Cannot load video details."
MsgConfig == "Unable to load video details. Please check your API configuration."
MsgNotFound == "Video not found"
MsgServer == "Server error. Please try again later."
MsgFailed == "Failed to load video details. Please try again."
MsgTypeError == "TypeError"

Return(items, reqs, cached) ==
  [kind |-> "return", items |-> items, message |-> "", requests |-> reqs, cached |-> cached]
Throw(msg, reqs, cached) ==
  [kind |-> "throw", items |-> <<>>, message |-> msg, requests |-> reqs, cached |-> cached]

Request(endpoint, q, order, maxResults, id, key) ==
  [endpoint |-> endpoint, q |-> q, order |-> order, maxResults |-> maxResults,
   id |-> id, key |-> key]

(* ------------------------------------------------------------------ *)
(* src/api/youtubeApi.ts                                               *)
(* ------------------------------------------------------------------ *)
\* checkInternetConnection with || written for &&
checkInternetConnection_Or(ni) ==
  IF ni.throws THEN FALSE
  ELSE ni.isConnected = "true" \/ ni.isInternetReachable = "true"

\* checkInternetConnection: NetInfo.fetch() either throws or yields a state.
checkInternetConnection(ni) ==
  IF ni.throws THEN FALSE
  ELSE ni.isConnected = "true" /\ ni.isInternetReachable = "true"

\* getApiKey: returns the cached key when there is one, otherwise reads the
\* configuration, throws when it holds no key, and caches what it read.
getApiKey(cached, cfg) ==
  IF cached # Null THEN [threw |-> FALSE, key |-> cached, cached |-> cached]
  ELSE IF cfg = NoKey THEN [threw |-> TRUE, key |-> NoKey, cached |-> cached]
  ELSE [threw |-> FALSE, key |-> cfg, cached |-> cfg]

\* the first test of the three catch blocks
IsNetworkError(err) ==
  \/ err.code = "NETWORK_ERROR"
  \/ err.message = "Network Error"
  \/ err.response = NoResponse

\* the catch block with the rethrow of the first revision left as the last
\* statement
ListCatch_Rethrow(err, reqs, cached) ==
  IF IsNetworkError(err) THEN Return(<<>>, reqs, cached)
  ELSE IF err.response = 403 THEN Return(<<>>, reqs, cached)
  ELSE IF err.response = 400 THEN Return(<<>>, reqs, cached)
  ELSE IF err.response = 429 THEN Return(<<>>, reqs, cached)
  ELSE IF err.response >= 500 THEN Return(<<>>, reqs, cached)
  ELSE Throw(err.message, reqs, cached)

\* catch block of searchVideos and of getPopularVideos
ListCatch(err, reqs, cached) ==
  IF IsNetworkError(err) THEN Return(<<>>, reqs, cached)
  ELSE IF err.response = 403 THEN Return(<<>>, reqs, cached)
  ELSE IF err.response = 400 THEN Return(<<>>, reqs, cached)
  ELSE IF err.response = 429 THEN Return(<<>>, reqs, cached)
  ELSE IF err.response >= 500 THEN Return(<<>>, reqs, cached)
  ELSE Return(<<>>, reqs, cached)

\* q: query || 'programming tutorial'
SearchQ(query) == IF query = <<>> THEN DefaultQuery ELSE query

\* the try block of searchVideos / getPopularVideos after the probe said
\* "connected": read the key, send the request, return its items
ListRequest(q, maxResults, order, cfg, cached, http) ==
  LET k == getApiKey(cached, cfg) IN
  IF k.threw THEN ListCatch(PlainError(MsgNoKey), <<>>, k.cached)
  ELSE LET reqs == <<Request("/search", q, order, maxResults, "", k.key)>> IN
       IF http.type = "ok" THEN Return(http.items, reqs, k.cached)
       ELSE IF http.type = "okNoItems" THEN Return(<<>>, reqs, k.cached)
       ELSE ListCatch(AxiosError(http), reqs, k.cached)

searchVideos(query, maxResults, order, ni, cfg, cached, http) ==
  IF ~checkInternetConnection(ni) THEN Return(<<>>, <<>>, cached)
  ELSE ListRequest(SearchQ(query), maxResults, order, cfg, cached, http)

getPopularVideos(maxResults, ni, cfg, cached, http) ==
  IF ~checkInternetConnection(ni) THEN Return(<<>>, <<>>, cached)
  ELSE ListRequest(DefaultQuery, maxResults, "viewCount", cfg, cached, http)

\* catch block of getVideoDetails; both arms of the inner test on the message
\* throw the same text
DetailsCatch(err, reqs, cached) ==
  IF IsNetworkError(err) THEN
    IF err.message = MsgNoInternet THEN Throw(err.message, reqs, cached)
    ELSE Throw(MsgNoInternet, reqs, cached)
  ELSE IF err.response = 403 THEN Throw(MsgConfig, reqs, cached)
  ELSE IF err.response = 404 THEN Throw(MsgNotFound, reqs, cached)
  ELSE IF err.response >= 500 THEN Throw(MsgServer, reqs, cached)
  ELSE Throw(MsgFailed, reqs, cached)

getVideoDetails(videoId, ni, cfg, cached, http) ==
  IF ~checkInternetConnection(ni) THEN DetailsCatch(PlainError(MsgNoInternet), <<>>, cached)
  ELSE
    LET k == getApiKey(cached, cfg) IN
    IF k.threw THEN DetailsCatch(PlainError(MsgNoKey), <<>>, k.cached)
    ELSE LET reqs == <<Request("/videos", <<>>, "", 0, videoId, k.key)>> IN
         IF http.type = "ok" THEN
           IF http.items = <<>> THEN DetailsCatch(PlainError(MsgNotFound), reqs, k.cached)
           ELSE Return(<<http.items[1]>>, reqs, k.cached)
         ELSE IF http.type = "okNoItems" THEN
           DetailsCatch(PlainError(MsgTypeError), reqs, k.cached)
         ELSE DetailsCatch(AxiosError(http), reqs, k.cached)

\* the error kind the UI reads off the thrown message
ErrorKind(msg) ==
  CASE msg = MsgNoInternet -> "NetworkUnavailable"
    [] msg = MsgConfig -> "ConfigurationError"
    [] msg = MsgNotFound -> "NotFound"
    [] msg = MsgServer -> "ServerError"
    [] msg = MsgFailed -> "Unknown"
    [] OTHER -> "Unclassified"

(* ------------------------------------------------------------------ *)
(* State                                                               *)
(* ------------------------------------------------------------------ *)
VARIABLES
  configKey,      \* Constants.expoConfig.extra.youtubeApiKey
  cachedApiKey,   \* module-level cachedApiKey
  apiCall,        \* the API call made last: its inputs and its outcome
  \* SearchScreen
  phase,            \* "constructed", "mounted", "unmounted"
  initialQuery,     \* route.params?.query || ''
  allVideos, displayedVideos, displayCount, loading, error,
  searchQuery, sortOption, isTyping,
  debounceTimerRef, \* id of the timer set last, 0 for null
  timers,           \* the timers that are set and have neither fired nor been cleared
  fetches,          \* the calls of searchVideos / getPopularVideos that are awaited
  issued,           \* number of fetches started
  sinceKey,         \* ms since the last keystroke, up to AgeCap
  keys,             \* number of keystrokes
  presses,          \* number of submits and sort changes
  lastKey,          \* the text of the last keystroke
  burstKeys,        \* keystrokes of the current burst, each < DebounceMs after the one before
  burstFires,       \* debounce timers fired since the current burst of keystrokes began
  lastFire,         \* the fetch the debounce timer started last
  lastFetch,        \* the fetch completed last: its outcome, whether its result
                    \* was applied, whether it was the one issued last, what
                    \* had started the one issued last and whether applying
                    \* it lowered displayCount
  issuedBy,         \* what started the fetch issued last
  showMores,        \* "Show more" presses since a fetch result was applied last
  netReachable,     \* what the connection probe, or a NetInfo event, said last
  reconnectIssued,  \* the value of issued when NetInfo reported the connection
                    \* back on the mounted screen last, -1 before
  \* HomeScreen
  home,             \* its state, the platform's connection and the calls it awaits
  \* VideoDetailScreen
  detail,           \* the note, its save timers and the stored note of the video
  \* SearchInput
  input             \* the text typed last and the text the field holds

apiVars == <<configKey, cachedApiKey, apiCall>>
uiVars == <<allVideos, displayedVideos, displayCount, loading, error, searchQuery,
            sortOption, isTyping>>
timerVars == <<debounceTimerRef, timers>>
historyVars == <<keys, presses, lastKey, burstKeys, burstFires, lastFire,
                lastFetch, issuedBy, showMores>>
netVars == <<netReachable, reconnectIssued>>
screenVars == <<phase, initialQuery, uiVars, timerVars, fetches, issued, sinceKey,
               historyVars, netVars>>
otherVars == <<home, detail, input>>
vars == <<apiVars, screenVars, otherVars>>

NoNetInfo == [isConnected |-> "null", isInternetReachable |-> "null", throws |-> FALSE]
NoHttp == [type |-> "networkError", status |-> 0, items |-> <<>>]
NoCall ==
  [op |-> "none", query |-> <<>>, maxResults |-> 0, order |-> "", videoId |-> "",
   ni |-> NoNetInfo, reachable |-> FALSE, cfg |-> NoKey, http |-> NoHttp,
   result |-> Return(<<>>, <<>>, Null)]

Call(op, query, maxResults, order, videoId, ni, http, result) ==
  [op |-> op, query |-> query, maxResults |-> maxResults, order |-> order,
   videoId |-> videoId, ni |-> ni, reachable |-> checkInternetConnection(ni),
   cfg |-> configKey, http |-> http,
   result |-> result]

\* sinceKey stops counting here
AgeCap == DebounceMs + TickMs
NoFire == [age |-> -1, op |-> "none", query |-> <<>>]
\* texts the search field holds: empty, blank, one that trim shortens
TypedTexts == {<<>>, <<" ">>, <<" ", "a">>}
\* a session has room for one more keystroke, submit or sort change
EventRoom == keys + presses < MaxEvents
ScreenConfigs == {NoKey, "K1"}
NoFetch == [failed |-> FALSE, threw |-> FALSE, items |-> <<>>, op |-> "none",
            sort |-> "", applied |-> FALSE, latest |-> FALSE, newest |-> "none",
            lowered |-> FALSE]

\* HomeScreen.tsx: the categories of its rows
Categories == {"React Native", "React", "TypeScript", "JavaScript"}
\* a category name as a query
CategoryQuery == <<"a">>

\* HomeScreen as constructed (the useState initial values of the screen and of
\* useNetworkState), on a platform whose connection is p
HomeConstructed(p) ==
  [phase |-> "constructed",
   networkState |-> "null",       \* networkState.isConnected
   platform |-> p,                \* isConnected of the NetInfo state
   notified |-> FALSE,            \* the hook has been given that state
   report |-> "none",             \* isConnected of the state given last
   categoryVideos |-> [c \in Categories |-> <<>>],
   loading |-> [c \in Categories |-> TRUE],
   awaiting |-> {},               \* the calls of searchVideos awaited
   retries |-> 0]                 \* presses of Retry

\* VideoDetailScreen as constructed for a video whose stored note is saved:
\* {} when AsyncStorage holds none, {text} when it holds text
DetailConstructed(saved) ==
  [phase |-> "constructed",
   note |-> <<>>,                 \* useState('')
   stored |-> saved,              \* AsyncStorage items under video_note_<videoId>
   timers |-> {},                 \* save timers set and not cleared
   idle |-> 0,                    \* ms since the note changed last, up to NoteDebounceMs
   edits |-> 0,                   \* changes of the text by the user
   writes |-> 0,                  \* saves that were written
   staleWrite |-> FALSE]          \* a save wrote a text the input no longer held

\* SearchInput as constructed: useState(defaultValue), nothing typed
InputConstructed == [text |-> <<>>, query |-> <<>>, changes |-> 0]

\* the screens that are not followed stay as constructed
OthersConstructed ==
  /\ home = HomeConstructed("true")
  /\ detail = DetailConstructed({})
  /\ input = InputConstructed

\* the screen as constructed: the useState / useRef initial values
ScreenConstructed(q) ==
  /\ phase = "constructed"
  /\ initialQuery = q
  /\ allVideos = <<>>
  /\ displayedVideos = <<>>
  /\ displayCount = INITIAL_DISPLAY_COUNT
  /\ loading = TRUE
  /\ error = Null
  /\ searchQuery = q
  /\ sortOption = "viewCount"
  /\ isTyping = FALSE
  /\ debounceTimerRef = 0
  /\ timers = {}
  /\ fetches = {}
  /\ issued = 0
  /\ sinceKey = AgeCap
  /\ keys = 0 /\ presses = 0
  /\ lastKey = <<>>
  /\ burstKeys = 0
  /\ burstFires = 0
  /\ lastFire = NoFire
  /\ lastFetch = NoFetch
  /\ issuedBy = "none"
  /\ showMores = 0
  /\ netReachable = TRUE
  /\ reconnectIssued = -1

ApiInit ==
  /\ configKey \in ConfigValues
  /\ cachedApiKey = Null
  /\ apiCall = NoCall
  /\ ScreenConstructed(<<>>)
  /\ OthersConstructed

\* the configuration is replaced (a new .env is loaded)
SetConfig ==
  /\ apiCall = NoCall
  /\ \E k \in ConfigValues : k # configKey /\ configKey' = k
  /\ UNCHANGED <<cachedApiKey, apiCall, screenVars, otherVars>>

\* the awaiting caller resumes with the outcome of the call
Settle ==
  /\ apiCall # NoCall
  /\ apiCall' = NoCall
  /\ UNCHANGED <<configKey, cachedApiKey, screenVars, otherVars>>

CallSearchVideos ==
  /\ apiCall = NoCall
  /\ \E query \in Queries, maxResults \in MaxResultsValues, order \in SortOrders,
        ni \in NetInfoStates, http \in HttpOutcomes :
       LET r == searchVideos(query, maxResults, order, ni, configKey, cachedApiKey, http) IN
       /\ apiCall' = Call("searchVideos", query, maxResults, order, "", ni, http, r)
       /\ cachedApiKey' = r.cached
       /\ UNCHANGED <<configKey, screenVars, otherVars>>

CallGetPopularVideos ==
  /\ apiCall = NoCall
  /\ \E maxResults \in MaxResultsValues, ni \in NetInfoStates, http \in HttpOutcomes :
       LET r == getPopularVideos(maxResults, ni, configKey, cachedApiKey, http) IN
       /\ apiCall' = Call("getPopularVideos", <<>>, maxResults, "", "", ni, http, r)
       /\ cachedApiKey' = r.cached
       /\ UNCHANGED <<configKey, screenVars, otherVars>>

CallGetVideoDetails ==
  /\ apiCall = NoCall
  /\ \E videoId \in VideoIds, ni \in NetInfoStates, http \in HttpOutcomes :
       LET r == getVideoDetails(videoId, ni, configKey, cachedApiKey, http) IN
       /\ apiCall' = Call("getVideoDetails", <<>>, 0, "", videoId, ni, http, r)
       /\ cachedApiKey' = r.cached
       /\ UNCHANGED <<configKey, screenVars, otherVars>>

ApiNext ==
  \/ SetConfig
  \/ CallSearchVideos
  \/ CallGetPopularVideos
  \/ CallGetVideoDetails
  \/ Settle

SpecApi == ApiInit /\ [][ApiNext]_vars

(* ------------------------------------------------------------------ *)
(* src/screens/SearchScreen.tsx                                        *)
(* ------------------------------------------------------------------ *)
MsgFetchFailed == "Failed to fetch videos. Please try again."

Min(a, b) == IF a < b THEN a ELSE b

\* a reverse that keeps the order
Reverse_Same(s) == s

Reverse(s) == [i \in 1..Len(s) |-> s[Len(s) + 1 - i]]

\* a slice that keeps the whole list
Slice_Whole(s, n) == s

\* allVideos.slice(0, displayCount)
Slice(s, n) == SubSeq(s, 1, Min(n, Len(s)))

\* a mapping that sends the default order for every option
getSortOrder_Relevance(sort) == "relevance"

getSortOrder(sort) ==
  CASE sort = "date" -> "date"
    [] sort = "dateDesc" -> "date"
    [] sort = "viewCount" -> "viewCount"
    [] OTHER -> "relevance"

\* the call getPopularVideos(50) that loadPopularVideos awaits
loadPopularVideos(id) ==
  [id |-> id, op |-> "popular", query |-> <<>>, sort |-> "", order |-> "viewCount"]

\* the call performSearch awaits: searchVideos(query, 50, order), or the
\* popular list when the query is blank
performSearch(id, query, sort) ==
  IF Trim(query) = <<>> THEN loadPopularVideos(id)
  ELSE [id |-> id, op |-> "search", query |-> query, sort |-> sort,
        order |-> getSortOrder(sort)]

\* body shared by the effects on [initialQuery] and on [sortOption]
EffectFetch(id, query, sort) ==
  IF query # <<>> THEN performSearch(id, query, sort) ELSE loadPopularVideos(id)

\* the shared body without the trim
TrimmedFetch_Raw(id, query, sort) == performSearch(id, query, sort)

\* body shared by the debounce callback and handleSearch
TrimmedFetch(id, query, sort) ==
  IF Trim(query) # <<>> THEN performSearch(id, Trim(query), sort)
  ELSE loadPopularVideos(id)

\* handleQueryChange without the clearTimeout
ClearPending_Never(ts, ref) == ts

\* if (debounceTimerRef.current) clearTimeout(debounceTimerRef.current)
ClearPending(ts, ref) ==
  IF ref # 0 THEN {t \in ts : t.id # ref} ELSE ts

\* setLoading(true); setError(null) at the head of a fetch; a state setter of
\* an unmounted component does nothing
BeginLoading ==
  IF phase = "mounted" THEN loading' = TRUE /\ error' = Null
  ELSE UNCHANGED <<loading, error>>

\* the first render commits and the three effects run
Mount ==
  /\ phase = "constructed"
  /\ phase' = "mounted"
  /\ fetches' = {EffectFetch(1, initialQuery, sortOption),
                 EffectFetch(2, searchQuery, sortOption)}
  /\ issued' = 2
  /\ issuedBy' = "mount"
  /\ loading' = TRUE /\ error' = Null
  /\ displayedVideos' = Slice(allVideos, displayCount)
  /\ UNCHANGED <<otherVars, apiVars, initialQuery, allVideos, displayCount, searchQuery, sortOption,
                 isTyping, timerVars, sinceKey, keys, presses, lastKey, burstKeys,
                 burstFires, lastFire, lastFetch, showMores,
                 netVars>>

NoTimerDue == \A t \in timers : t.remaining > 0

handleQueryChange ==
  /\ phase = "mounted"
  /\ EventRoom
  /\ NoTimerDue
  /\ \E query \in TypedTexts :
       /\ searchQuery' = query
       /\ isTyping' = TRUE
       /\ timers' = ClearPending(timers, debounceTimerRef)
                      \cup {[id |-> keys + 1, remaining |-> DebounceMs,
                             query |-> query, sort |-> sortOption]}
       /\ debounceTimerRef' = keys + 1
       /\ keys' = keys + 1
       /\ lastKey' = query
       /\ sinceKey' = 0
       /\ burstKeys' = IF keys > 0 /\ sinceKey < DebounceMs THEN burstKeys + 1 ELSE 1
       /\ burstFires' = IF keys > 0 /\ sinceKey < DebounceMs THEN burstFires ELSE 0
  /\ UNCHANGED <<otherVars, apiVars, phase, initialQuery, allVideos, displayedVideos, displayCount,
                 loading, error, sortOption, fetches, issued, presses,
                 lastFire, lastFetch, issuedBy, showMores,
                 netVars>>

\* the callback handleQueryChange passed to setTimeout runs
DebounceFire ==
  \E t \in timers :
    /\ t.remaining = 0
    /\ timers' = timers \ {t}
    /\ LET f == TrimmedFetch(issued + 1, t.query, t.sort) IN
       /\ fetches' = fetches \cup {f}
       /\ lastFire' = [age |-> sinceKey, op |-> f.op, query |-> f.query]
    /\ issued' = issued + 1
    /\ issuedBy' = "debounce"
    /\ burstFires' = burstFires + 1
    /\ BeginLoading
    /\ UNCHANGED <<otherVars, apiVars, phase, initialQuery, allVideos, displayedVideos, displayCount,
                   searchQuery, sortOption, isTyping, debounceTimerRef, sinceKey, keys,
                   presses, lastKey, burstKeys, lastFetch, showMores,
                 netVars>>

\* SearchInput passes the trimmed text, or '' when the field is pressed
handleSearch ==
  /\ phase = "mounted"
  /\ EventRoom
  /\ NoTimerDue
  /\ \E query \in {Trim(t) : t \in TypedTexts} :
       /\ searchQuery' = query
       /\ fetches' = fetches \cup {TrimmedFetch(issued + 1, query, sortOption)}
  /\ issued' = issued + 1
  /\ issuedBy' = "submit"
  /\ presses' = presses + 1
  /\ BeginLoading
  /\ UNCHANGED <<otherVars, apiVars, phase, initialQuery, allVideos, displayedVideos, displayCount,
                 sortOption, isTyping, timerVars, sinceKey, keys, lastKey,
                 burstKeys, burstFires, lastFire, lastFetch, showMores,
                 netVars>>

\* the results header, and its "Sort by" button, is rendered
SortOffered == Len(displayedVideos) > 0 \/ loading

\* setSortOption(sort), then the effect on [sortOption]
handleSortChange ==
  /\ phase = "mounted"
  /\ SortOffered
  /\ EventRoom
  /\ NoTimerDue
  /\ \E sort \in SortOptions \ {sortOption} :
       /\ sortOption' = sort
       /\ fetches' = fetches \cup {EffectFetch(issued + 1, searchQuery, sort)}
  /\ issued' = issued + 1
  /\ issuedBy' = "sort"
  /\ presses' = presses + 1
  /\ BeginLoading
  /\ UNCHANGED <<otherVars, apiVars, phase, initialQuery, allVideos, displayedVideos, displayCount,
                 searchQuery, isTyping, timerVars, sinceKey, keys, lastKey,
                 burstKeys, burstFires, lastFire, lastFetch, showMores,
                 netVars>>

\* renderFooter returns the "Show more" button
renderFooter == Len(displayedVideos) < Len(allVideos)

\* the render reaches the FlatList: no spinner, no error text, no empty text
ListRendered ==
  /\ ~(loading \/ isTyping)
  /\ error = Null
  /\ Len(displayedVideos) # 0

\* "Show more" is on screen: the footer of the rendered list
ShowMoreOffered == ListRendered /\ renderFooter

\* a "Show more" that takes a window away
handleShowMore_Narrower ==
  /\ phase = "mounted"
  /\ ShowMoreOffered
  /\ NoTimerDue
  /\ displayCount' = displayCount - LOAD_MORE_COUNT
  /\ displayedVideos' = Slice(allVideos, displayCount')
  /\ showMores' = showMores + 1
  /\ UNCHANGED <<otherVars, apiVars, phase, initialQuery, allVideos, loading, error, searchQuery,
                 sortOption, isTyping, timerVars, fetches, issued, sinceKey, keys,
                 presses, lastKey, burstKeys, burstFires, lastFire, lastFetch, issuedBy,
                 netVars>>

\* a "Show more" that adds one item more than a window
handleShowMore_Wider ==
  /\ phase = "mounted"
  /\ ShowMoreOffered
  /\ NoTimerDue
  /\ displayCount' = displayCount + LOAD_MORE_COUNT + 1
  /\ displayedVideos' = Slice(allVideos, displayCount')
  /\ showMores' = showMores + 1
  /\ UNCHANGED <<otherVars, apiVars, phase, initialQuery, allVideos, loading, error, searchQuery,
                 sortOption, isTyping, timerVars, fetches, issued, sinceKey, keys,
                 presses, lastKey, burstKeys, burstFires, lastFire, lastFetch, issuedBy,
                 netVars>>

handleShowMore ==
  /\ phase = "mounted"
  /\ ShowMoreOffered
  /\ NoTimerDue
  /\ displayCount' = displayCount + LOAD_MORE_COUNT
  /\ displayedVideos' = Slice(allVideos, displayCount')
  /\ showMores' = showMores + 1
  /\ UNCHANGED <<otherVars, apiVars, phase, initialQuery, allVideos, loading, error, searchQuery,
                 sortOption, isTyping, timerVars, fetches, issued, sinceKey, keys,
                 presses, lastKey, burstKeys, burstFires, lastFire, lastFetch, issuedBy,
                 netVars>>

\* what an awaited call can settle with, over everything the platform and the
\* server can do: the call's outcome, and whether the request failed
Outcomes(f) ==
  {[r |-> IF f.op = "search"
          THEN searchVideos(f.query, ScreenMaxResults, f.order, ni, configKey,
                            cachedApiKey, http)
          ELSE getPopularVideos(ScreenMaxResults, ni, configKey, cachedApiKey, http),
    okHttp |-> http.type \in {"ok", "okNoItems"},
    reachable |-> checkInternetConnection(ni)]
     : ni \in NetInfoStates, http \in HttpOutcomes}

\* const sortedResults = [...results]; if (sort === 'dateDesc') reverse();
\* loadPopularVideos applies the list as returned
sortedResults(f, results) ==
  IF f.op = "search" /\ f.sort = "dateDesc" THEN Reverse(results) ELSE results

\* a setter that appends to the previous list
setAllVideos_Append(prev, next) == prev \o next

\* setAllVideos(next) puts next in the place of the previous list
setAllVideos(prev, next) == next

\* an awaited call of searchVideos / getPopularVideos settles and the rest of
\* performSearch / loadPopularVideos runs
FetchComplete ==
  \E f \in fetches :
    \E o \in Outcomes(f) :
      LET r == o.r IN
      /\ fetches' = fetches \ {f}
      /\ cachedApiKey' = r.cached
      /\ netReachable' = o.reachable
      /\ lastFetch' = [failed |-> r.requests = <<>> \/ ~o.okHttp,
                       threw |-> r.kind = "throw", items |-> r.items,
                       op |-> f.op, sort |-> f.sort,
                       applied |-> phase = "mounted" /\ r.kind = "return",
                       latest |-> f.id = issued, newest |-> issuedBy,
                       lowered |-> /\ phase = "mounted" /\ r.kind = "return"
                                   /\ displayCount > INITIAL_DISPLAY_COUNT]
      /\ showMores' = IF phase = "mounted" /\ r.kind = "return" THEN 0 ELSE showMores
      /\ IF phase = "mounted"
         THEN /\ IF r.kind = "return"
                 THEN /\ allVideos' = setAllVideos(allVideos, sortedResults(f, r.items))
                      /\ displayCount' = INITIAL_DISPLAY_COUNT
                      /\ UNCHANGED error
                 ELSE /\ error' = MsgFetchFailed
                      /\ UNCHANGED <<allVideos, displayCount>>
              /\ loading' = FALSE
              /\ isTyping' = FALSE
              /\ displayedVideos' = Slice(allVideos', displayCount')
         ELSE UNCHANGED <<allVideos, displayCount, error, loading, isTyping,
                          displayedVideos>>
      /\ UNCHANGED <<otherVars, configKey, apiCall, phase, initialQuery, searchQuery, sortOption,
                     timerVars, issued, sinceKey, keys, presses, lastKey,
                     burstKeys, burstFires, lastFire, issuedBy,
                     reconnectIssued>>

\* the screen is left; no effect of the screen has a cleanup
Unmount ==
  /\ phase = "mounted"
  /\ phase' = "unmounted"
  /\ UNCHANGED <<otherVars, apiVars, initialQuery, uiVars, timerVars, fetches, issued, sinceKey,
                 historyVars, netVars>>

\* time passes, never past a timer that is due
Tick ==
  /\ NoTimerDue
  /\ timers # {} \/ sinceKey < AgeCap
  /\ \E d \in 1..TickMs :
       /\ d = TickMs \/ \E t \in timers : t.remaining = d
       /\ \A t \in timers : t.remaining >= d
       /\ timers' = {[t EXCEPT !.remaining = @ - d] : t \in timers}
       /\ sinceKey' = Min(sinceKey + d, AgeCap)
  /\ UNCHANGED <<otherVars, apiVars, phase, initialQuery, uiVars, debounceTimerRef, fetches, issued,
                 historyVars, netVars>>

\* time passes until the timer set last is due, or the burst is over
Elapse ==
  /\ NoTimerDue
  /\ timers # {} \/ sinceKey < AgeCap
  /\ LET d == IF timers = {} THEN AgeCap - sinceKey
              ELSE CHOOSE m \in {t.remaining : t \in timers} :
                     \A t \in timers : m <= t.remaining
     IN /\ timers' = {[t EXCEPT !.remaining = @ - d] : t \in timers}
        /\ sinceKey' = Min(sinceKey + d, AgeCap)
  /\ UNCHANGED <<otherVars, apiVars, phase, initialQuery, uiVars, debounceTimerRef, fetches, issued,
                 historyVars, netVars>>

\* NetInfo reports a change of the connection to its listeners; SearchScreen
\* registers none
NetInfoChange ==
  /\ netReachable' = ~netReachable
  /\ reconnectIssued' = IF ~netReachable /\ phase = "mounted" THEN issued
                        ELSE reconnectIssued
  /\ UNCHANGED <<otherVars, apiVars, phase, initialQuery, uiVars, timerVars, fetches, issued,
                 sinceKey, historyVars>>

ScreenInit ==
  /\ configKey \in ScreenConfigs
  /\ cachedApiKey = Null
  /\ apiCall = NoCall
  /\ \E q \in {Trim(t) : t \in TypedTexts} : ScreenConstructed(q)
  /\ OthersConstructed

\* every awaited call has settled
Settled == fetches = {}

\* The screen with a network that answers before the next keystroke, press or
\* clock step; a debounce timer that is due fires whatever is awaited.
ScreenNext ==
  \/ Mount
  \/ DebounceFire
  \/ FetchComplete
  \/ Settled /\ handleQueryChange
  \/ Settled /\ handleSearch
  \/ Settled /\ handleSortChange
  \/ Settled /\ handleShowMore
  \/ Settled /\ Unmount
  \/ Settled /\ Tick

SpecScreen == ScreenInit /\ [][ScreenNext]_vars

\* an awaited call leaves room for one more to overlap it
Overlap == Cardinality(fetches) < MaxInFlight

\* The screen with a slow network: keystrokes, presses and the clock do not
\* wait for an awaited call.
RaceNext ==
  \/ Mount
  \/ DebounceFire
  \/ FetchComplete
  \/ Overlap /\ handleQueryChange
  \/ Overlap /\ handleSearch
  \/ Overlap /\ handleSortChange
  \/ Settled /\ handleShowMore
  \/ Settled /\ Unmount
  \/ Overlap /\ Elapse

\* the screen opened from the search tab, with the key configured
RaceInit ==
  /\ configKey = "K1"
  /\ cachedApiKey = Null
  /\ apiCall = NoCall
  /\ ScreenConstructed(<<>>)
  /\ OthersConstructed

SpecRace == RaceInit /\ [][RaceNext]_vars

(* ------------------------------------------------------------------ *)
(* src/screens/HomeScreen.tsx, src/hooks/useNetworkState.ts            *)
(* ------------------------------------------------------------------ *)
HomeMaxResults == 10

\* state.isConnected ?? false
Coalesce(v) == IF v = "null" THEN "false" ELSE v

\* if (networkState.isConnected === false) return <NoInternetView .../>
NoInternetViewShown == home.phase = "mounted" /\ home.networkState = "false"

\* CATEGORIES.map(...) of the mount effect or of handleRetry: one awaited
\* call of searchVideos(category, 10) for each category
fetchCategoryVideos(src) == {[category |-> c, src |-> src] : c \in Categories}

\* the first render commits: the mount effect fetches every category and
\* useNetworkState asks for the state and subscribes
HomeMount ==
  /\ home.phase = "constructed"
  /\ home' = [home EXCEPT !.phase = "mounted",
                          !.awaiting = fetchCategoryVideos("mount")]
  /\ UNCHANGED <<apiVars, screenVars, detail, input>>

\* the connection of the platform changes; its listeners are told later
HomePlatformChange ==
  /\ home.phase = "mounted"
  /\ home.notified
  /\ \E p \in Tri \ {home.platform} :
       home' = [home EXCEPT !.platform = p, !.notified = FALSE]
  /\ UNCHANGED <<apiVars, screenVars, detail, input>>

\* NetInfo.fetch() resolves, or the listener is called: setNetworkState
HomeNetInfoEvent ==
  /\ home.phase = "mounted"
  /\ ~home.notified
  /\ home' = [home EXCEPT !.networkState = Coalesce(home.platform),
                          !.report = home.platform,
                          !.notified = TRUE]
  /\ UNCHANGED <<apiVars, screenVars, detail, input>>

\* what an awaited searchVideos(category, 10) can settle with on the platform
\* as it is
HomeOutcomes ==
  {searchVideos(CategoryQuery, HomeMaxResults, "relevance", ni, configKey,
                cachedApiKey, http)
     : ni \in {n \in NetInfoStates : ~n.throws /\ n.isConnected = home.platform},
       http \in HttpOutcomes}

\* an awaited call settles: setCategoryVideos, then setLoading(false)
HomeFetchComplete ==
  \E f \in home.awaiting :
    \E r \in HomeOutcomes :
      /\ cachedApiKey' = r.cached
      /\ home' = [home EXCEPT
            !.awaiting = @ \ {f},
            !.categoryVideos[f.category] = IF r.kind = "return" THEN r.items ELSE @,
            !.loading[f.category] = FALSE]
      /\ UNCHANGED <<configKey, apiCall, screenVars, detail, input>>

\* Retry is pressed on the no-internet view: handleRetry of the render that
\* shows the view
handleRetry ==
  /\ NoInternetViewShown
  /\ home.retries < MaxEvents
  /\ home' = IF home.networkState = "true"
             THEN [home EXCEPT !.retries = @ + 1,
                               !.loading = [c \in Categories |-> TRUE],
                               !.awaiting = @ \cup fetchCategoryVideos(home.retries + 1)]
             ELSE [home EXCEPT !.retries = @ + 1]
  /\ UNCHANGED <<apiVars, screenVars, detail, input>>

HomeInit ==
  /\ configKey \in ScreenConfigs
  /\ cachedApiKey = Null
  /\ apiCall = NoCall
  /\ ScreenConstructed(<<>>)
  /\ detail = DetailConstructed({})
  /\ input = InputConstructed
  /\ \E p \in Tri : home = HomeConstructed(p)

HomeNext ==
  \/ HomeMount
  \/ HomePlatformChange
  \/ HomeNetInfoEvent
  \/ HomeFetchComplete
  \/ handleRetry

SpecHome == HomeInit /\ [][HomeNext]_vars

(* ------------------------------------------------------------------ *)
(* src/screens/VideoDetailScreen.tsx: the note of a video              *)
(* ------------------------------------------------------------------ *)
NoteDebounceMs == 1000
NoteTexts == {<<>>, <<"a">>, <<"a", "a">>}

\* the effect on [note, videoId]: the cleanup of the previous run clears its
\* timer, then a timer is set unless the note is empty
NoteEffect(pending, note) ==
  IF note = <<>> THEN {} ELSE {[remaining |-> NoteDebounceMs, text |-> note]}

\* the details are loaded and loadNote reads the stored note
loadNote ==
  /\ detail.phase = "constructed"
  /\ LET savedNote == detail.stored
         note == IF savedNote \notin {{}, {<<>>}}
                 THEN CHOOSE text \in savedNote : TRUE ELSE detail.note
     IN detail' = [detail EXCEPT !.phase = "loaded",
                                 !.note = note,
                                 !.timers = NoteEffect(@, note)]
  /\ UNCHANGED <<apiVars, screenVars, home, input>>

\* the user changes the text of the note: setNote, then the effect
NoteChange ==
  /\ detail.phase = "loaded"
  /\ detail.edits < MaxEvents
  /\ \A t \in detail.timers : t.remaining > 0
  /\ \E text \in NoteTexts \ {detail.note} :
       detail' = [detail EXCEPT !.note = text,
                                !.timers = NoteEffect(@, text),
                                !.idle = 0,
                                !.edits = @ + 1]
  /\ UNCHANGED <<apiVars, screenVars, home, input>>

\* the save timer runs out: saveNote(videoId, note) writes the text the
\* effect captured
saveNote ==
  /\ \E t \in detail.timers :
       /\ t.remaining = 0
       /\ detail' = [detail EXCEPT !.timers = @ \ {t},
                                   !.stored = {t.text},
                                   !.writes = Min(@ + 1, MaxEvents + 1),
                                   !.staleWrite = @ \/ t.text # detail.note]
  /\ UNCHANGED <<apiVars, screenVars, home, input>>

\* time passes, never past a save timer that is due
NoteTick ==
  /\ detail.phase = "loaded"
  /\ \A t \in detail.timers : t.remaining > 0
  /\ detail.timers # {} \/ detail.idle < NoteDebounceMs
  /\ \E d \in 1..TickMs :
       /\ d = TickMs \/ \E t \in detail.timers : t.remaining = d
       /\ \A t \in detail.timers : t.remaining >= d
       /\ detail' = [detail EXCEPT
             !.timers = {[t EXCEPT !.remaining = @ - d] : t \in @},
             !.idle = Min(@ + d, NoteDebounceMs)]
  /\ UNCHANGED <<apiVars, screenVars, home, input>>

NotesInit ==
  /\ configKey = "K1"
  /\ cachedApiKey = Null
  /\ apiCall = NoCall
  /\ ScreenConstructed(<<>>)
  /\ home = HomeConstructed("true")
  /\ input = InputConstructed
  /\ \E saved \in {{}} \cup {{text} : text \in NoteTexts \ {<<>>}} :
       detail = DetailConstructed(saved)

NotesNext ==
  \/ loadNote
  \/ NoteChange
  \/ saveNote
  \/ NoteTick

SpecNotes == NotesInit /\ [][NotesNext]_vars

(* ------------------------------------------------------------------ *)
(* src/components/SearchInput.tsx                                      *)
(* ------------------------------------------------------------------ *)
MaxInputLen == 200
\* "a" stands for any character that is no control character, "ctl" for a
\* control character (code 0x00-0x1F or 0x7F)
InputChars == {"a", "ctl"}

\* texts the field is given: short ones and ones about as long as the limit,
\* with control characters at their ends and around the limit
InputLens == 0..MaxShortLen \cup (MaxInputLen - 1)..(MaxInputLen + MaxOverLen)
CtlPlaces == {1, 2, MaxShortLen, MaxInputLen, MaxInputLen + 1}
InputTexts ==
  {[i \in 1..n |-> IF i \in P THEN "ctl" ELSE "a"] :
     n \in InputLens, P \in SUBSET CtlPlaces}

IsControl(c) == c = "ctl"

\* sanitizeInput
sanitizeInput(text) ==
  IF Len(text) > MaxInputLen THEN SubSeq(text, 1, MaxInputLen)
  ELSE SelectSeq(text, LAMBDA c : ~IsControl(c))

\* handleChange: the field's text changes to text
handleChange ==
  /\ input.changes < MaxEvents
  /\ \E text \in InputTexts \ {input.text} :
       input' = [text |-> text, query |-> sanitizeInput(text),
                 changes |-> input.changes + 1]
  /\ UNCHANGED <<apiVars, screenVars, home, detail>>

InputInit ==
  /\ configKey = "K1"
  /\ cachedApiKey = Null
  /\ apiCall = NoCall
  /\ ScreenConstructed(<<>>)
  /\ OthersConstructed

InputNext ==
  \/ handleChange

SpecInput == InputInit /\ [][InputNext]_vars

\* The screen and the connection: NetInfo reports the connection lost and back.
\* A rendered effect runs, time passes, a timer that is due fires and an
\* awaited call settles (its request times out after 10 s at the latest).
ReconnectNext ==
  \/ Mount
  \/ DebounceFire
  \/ FetchComplete
  \/ NetInfoChange
  \/ Settled /\ handleQueryChange
  \/ Settled /\ handleSearch
  \/ Settled /\ Unmount
  \/ Settled /\ Elapse

SpecReconnect ==
  /\ RaceInit
  /\ [][ReconnectNext]_vars
  /\ WF_vars(Mount)
  /\ WF_vars(DebounceFire)
  /\ WF_vars(FetchComplete)
  /\ WF_vars(Settled /\ Elapse)

(* ------------------------------------------------------------------ *)
(* Claims                                                              *)
(* ------------------------------------------------------------------ *)
Called(op) == apiCall.op = op
RequestSent == apiCall.result.requests # <<>>
Returned(items) == apiCall.result.kind = "return" /\ apiCall.result.items = items
Raised == apiCall.result.kind = "throw"
RaisedKind == ErrorKind(apiCall.result.message)

\* C1: searchVideos with an empty or whitespace-only query returns an empty
\* sequence and sends no HTTP request, for every maxResults and order.
C1_BlankQueryReturnsEmptyWithoutRequest ==
  (Called("searchVideos") /\ Trim(apiCall.query) = <<>>)
    => (Returned(<<>>) /\ ~RequestSent)

C3_NonexistentIdIsNotFound ==
  (/\ Called("getVideoDetails")
   /\ RequestSent
   /\ \/ apiCall.http.type = "status" /\ apiCall.http.status = 404
      \/ apiCall.http.type = "ok" /\ apiCall.http.items = <<>>)
    => (Raised /\ RaisedKind = "NotFound")

\* the cause of the failure of the getVideoDetails call made last
DetailsCause ==
  IF ~apiCall.reachable THEN "offline"
  ELSE IF ~RequestSent THEN "noKey"
  ELSE CASE apiCall.http.type = "ok" ->
              IF apiCall.http.items = <<>> THEN "emptyItems" ELSE "none"
         [] apiCall.http.type = "okNoItems" -> "malformed"
         [] apiCall.http.type = "networkError" -> "networkError"
         [] apiCall.http.type = "timeout" -> "timeout"
         [] apiCall.http.status = 404 -> "http404"
         [] apiCall.http.status = 403 -> "http403"
         [] apiCall.http.status >= 500 -> "http5xx"
         [] OTHER -> "httpOther"

\* the kinds the claims allow for a cause; "anything else" is Unknown, and an
\* empty items list or a missing key may also be the kind C3 and C5 give them
ClaimedKinds(cause) ==
  CASE cause = "http404" -> {"NotFound"}
    [] cause = "http403" -> {"ConfigurationError"}
    [] cause = "http5xx" -> {"ServerError"}
    [] cause \in {"offline", "networkError", "timeout"} -> {"NetworkUnavailable"}
    [] cause = "emptyItems" -> {"Unknown", "NotFound"}
    [] cause = "noKey" -> {"Unknown", "ConfigurationError"}
    [] OTHER -> {"Unknown"}

\* C4: getVideoDetails raises on every failure and classifies it by cause:
\* 404 NotFound, 403 ConfigurationError, >= 500 ServerError, no response,
\* network error or timeout NetworkUnavailable, anything else Unknown.
C4_DetailsErrorClassifiedByCause ==
  (Called("getVideoDetails") /\ DetailsCause # "none")
    => (Raised /\ RaisedKind \in ClaimedKinds(DetailsCause))

\* C5: with no API key in the configuration every call raises a configuration
\* error, whatever the network state; never another kind, never a result.
C5_MissingKeyRaisesConfigurationError ==
  (apiCall.op # "none" /\ apiCall.cfg = NoKey)
    => (Raised /\ apiCall.result.message \in {MsgNoKey, MsgConfig})

\* C6: the key is read from the configuration on every call: each request
\* carries the key the configuration holds at the moment of the call.
C6_RequestUsesCurrentKey ==
  \A i \in 1..Len(apiCall.result.requests) :
    apiCall.result.requests[i].key = apiCall.cfg

\* C7: with isConnected false, checkInternetConnection returns false for every
\* value of isInternetReachable, and the call sends no request.
C7_NotConnectedIsUnreachable ==
  (apiCall.op # "none" /\ ~apiCall.ni.throws /\ apiCall.ni.isConnected = "false")
    => (~apiCall.reachable /\ ~RequestSent)

C7_Witness ==
  /\ Called("searchVideos")
  /\ ~apiCall.ni.throws
  /\ apiCall.ni.isConnected = "false"
  /\ apiCall.ni.isInternetReachable = "true"
  /\ apiCall.cfg # NoKey
  /\ Returned(<<>>)

\* C8: with isConnected true, checkInternetConnection returns false only for
\* an explicit isInternetReachable = false; unknown (null) counts as reachable.
C8_UnknownReachabilityIsNonBlocking ==
  (apiCall.op # "none" /\ ~apiCall.ni.throws /\ apiCall.ni.isConnected = "true")
    => (apiCall.reachable <=> apiCall.ni.isInternetReachable # "false")

\* C9: when NetInfo.fetch() throws, checkInternetConnection returns true and
\* the call goes on to the HTTP request.
C9_ProbeFailsOpen ==
  (apiCall.op # "none" /\ apiCall.ni.throws)
    => (apiCall.reachable /\ (apiCall.cfg # NoKey => RequestSent))

\* C10: at most one debounce timer is pending; a burst of keystrokes, each less
\* than 500 ms after the one before, starts exactly one fetch, 500 ms after the
\* last keystroke, for the text of the last keystroke.
C10_Debounce ==
  /\ Cardinality(timers) <= 1
  /\ burstFires <= 1
  /\ burstFires = 1 =>
       /\ lastFire.age = DebounceMs
       /\ lastFire.op = TrimmedFetch(0, lastKey, "date").op
       /\ lastFire.query = TrimmedFetch(0, lastKey, "date").query
  /\ (keys > 0 /\ sinceKey > DebounceMs) => burstFires = 1
  /\ (keys > 0 /\ timers = {}) => burstFires = 1

C10_Witness ==
  /\ burstKeys >= 2
  /\ burstFires = 1
  /\ lastFire.op = "search"
  /\ sinceKey = DebounceMs

\* C11: when fetches started by a debounce fire, a submit or a sort change
\* overlap, only the result of the fetch issued last is applied; the response
\* of a superseded fetch is discarded.
C11_OnlyLastIssuedApplied ==
  (lastFetch.applied /\ lastFetch.newest \in {"debounce", "submit", "sort"})
    => lastFetch.latest

\* C12: after the screen is left no debounce timer is live, so no timer set
\* before the exit can fire.
C12_TeardownClearsTimer ==
  phase = "unmounted" => timers = {}

C14_ShowMoreIsLocal ==
  /\ [](/\ Len(displayedVideos) =
            (IF 10 + 10 * showMores < Len(allVideos) THEN 10 + 10 * showMores
             ELSE Len(allVideos))
        /\ \A i \in 1..Len(displayedVideos) : displayedVideos[i] = allVideos[i])
  /\ [][showMores' = showMores + 1 =>
          /\ displayCount' = displayCount + 10
          /\ UNCHANGED <<allVideos, searchQuery, sortOption, loading, error,
                         fetches, issued, apiCall>>]_vars

\* the third press after a fetch of more than three and at most four windows:
\* the whole list is shown, without an error, and no more is offered
C14_Witness ==
  /\ showMores = 3
  /\ Len(allVideos) > 30 /\ Len(allVideos) <= 40
  /\ displayedVideos = allVideos
  /\ error = Null
  /\ ~renderFooter

C16_SortChangeSearchesCurrentQuery ==
  /\ [](\A f \in fetches : f.op = "search" => f.order \in {"date", "viewCount"})
  /\ [][sortOption' # sortOption =>
          /\ loading'
          /\ \E f \in fetches' \ fetches :
               /\ f.op = "search" /\ f.query = searchQuery
               /\ <<sortOption', f.order>> \in
                    {<<"date", "date">>, <<"dateDesc", "date">>,
                     <<"viewCount", "viewCount">>}]_vars

\* C16 (amended): a sort change enters Loading and starts a new fetch: with a
\* current query that is not blank, a search for it under the new option, with
\* the remote order of the fixed mapping; with a blank current query, the
\* popular list under 'viewCount', whatever the option.  No search of the
\* screen sends a remote order outside the mapping.
C16_SortChangeRefetches ==
  /\ [](\A f \in fetches : f.op = "search" =>
          <<f.sort, f.order>> \in {<<"date", "date">>, <<"dateDesc", "date">>,
                                  <<"viewCount", "viewCount">>})
  /\ [][sortOption' # sortOption =>
          /\ loading'
          /\ issued' = issued + 1
          /\ \E f \in fetches' \ fetches :
               /\ f.id = issued'
               /\ IF Trim(searchQuery) # <<>>
                  THEN f.op = "search" /\ f.query = searchQuery /\ f.sort = sortOption'
                  ELSE f.op = "popular" /\ f.order = "viewCount"]_vars

\* the option was changed to 'dateDesc' with a query in the field
C16_Witness ==
  /\ issuedBy = "sort" /\ loading
  /\ \E f \in fetches :
       /\ f.id = issued /\ f.op = "search" /\ f.query = searchQuery
       /\ f.sort = "dateDesc" /\ f.order = "date"

C18_DisplayCountOnlyIncreases ==
  [][displayCount' >= displayCount]_vars

\* C18 (amended): displayCount is never below 10; keystrokes, submits, sort
\* changes and "Show more" presses never make it smaller, and the only step
\* that does is the completion of a fetch, which sets it back to 10.
C18_DisplayCountResetsOnFetch ==
  /\ [](displayCount >= 10)
  /\ [][\/ displayCount' >= displayCount
        \/ /\ Cardinality(fetches') < Cardinality(fetches)
           /\ displayCount' = 10]_vars

\* a fetch completed after "Show more" had widened the window
C18_Witness ==
  /\ lastFetch.lowered
  /\ displayCount = INITIAL_DISPLAY_COUNT
  /\ showMores = 0

\* C19: when the debounce timer fires or the user submits, the fetch started is
\* getPopularVideos if the text is empty after trimming, and otherwise
\* searchVideos with the trimmed text, never with an empty one; the mounted
\* screen enters Loading with no error; a submit starts its fetch in the same
\* step, whatever the debounce timer has left to run.
C19_BlankFallsBackToPopular ==
  [][/\ (issued' = issued + 1 /\ issuedBy' \in {"debounce", "submit"}) =>
         /\ \E f \in fetches' \ fetches :
              /\ f.id = issued'
              /\ \E text \in IF issuedBy' = "submit" THEN {searchQuery'}
                              ELSE {t.query : t \in timers \ timers'} :
                   IF Trim(text) = <<>> THEN f.op = "popular"
                   ELSE /\ f.op = "search"
                        /\ f.query = Trim(text)
                        /\ f.query # <<>>
         /\ phase = "mounted" => (loading' /\ error' = Null)
     /\ (presses' = presses + 1 /\ sortOption' = sortOption) =>
         (issued' = issued + 1 /\ issuedBy' = "submit" /\ timers' = timers)]_vars

\* the timer of a whitespace-only text fired: the popular list is awaited
C19_Witness ==
  /\ issuedBy = "debounce" /\ lastKey = <<" ">>
  /\ loading /\ error = Null
  /\ \E f \in fetches : f.id = issued /\ f.op = "popular"

\* C20: when the connection comes back during a session whose last fetch
\* failed and left the result set empty, the fetch is eventually run again
\* without further user input.
C20_ReconnectRefetches ==
  (/\ phase = "mounted" /\ reconnectIssued = issued /\ netReachable
   /\ fetches = {} /\ lastFetch.failed /\ allVideos = <<>>)
    ~> (issued > reconnectIssued \/ phase # "mounted")

C22_RetryRefetchesEveryCategory ==
  [][(home'.retries = home.retries + 1 /\ home.platform = "true") =>
       \A c \in Categories :
         /\ home'.loading[c]
         /\ \E f \in home'.awaiting \ home.awaiting : f.category = c]_vars

\* C25: the no-internet view is shown only after the platform has reported
\* isConnected = false; a report with isConnected unknown never shows it.
C25_NoInternetViewOnlyOnExplicitFalse ==
  NoInternetViewShown => home.report = "false"

\* C23: once the text of the note has stayed unchanged for 1 second the value
\* stored for the video equals the text in the input; at most one save timer
\* is pending; no save writes a text that was superseded within the window.
C23_NoteAutoSaved ==
  /\ Cardinality(detail.timers) <= 1
  /\ ~detail.staleWrite
  /\ (/\ detail.edits > 0
      /\ detail.idle >= NoteDebounceMs
      /\ \A t \in detail.timers : t.remaining > 0)
       => detail.stored = {detail.note}

\* C24: for every text, sanitizeInput yields at most 200 characters, none of
\* them a control character, and yields the text itself when the text is
\* within the limit and has no control character.
C24_SanitizedInput ==
  /\ Len(input.query) <= 200
  /\ \A i \in 1..Len(input.query) : input.query[i] # "ctl"
  /\ (Len(input.text) <= 200 /\ \A i \in 1..Len(input.text) : input.text[i] # "ctl")
       => input.query = input.text

\* C26: with a query that is not blank, once every timer has fired and every
\* fetch has settled, the applied result set was fetched for the sort option
\* that is selected; a timer set before a sort change does not bring back the
\* option of before.
C26_SettledResultsFollowSortOption ==
  (/\ phase = "mounted" /\ timers = {} /\ fetches = {}
   /\ lastFetch.applied /\ lastFetch.op = "search"
   /\ ~lastFetch.failed /\ allVideos # <<>>)
    => lastFetch.sort = sortOption

\* C27: loading is true whenever a fetch of the screen is outstanding, also
\* when fetches overlap.
C27_LoadingWhileFetching ==
  (phase = "mounted" /\ fetches # {}) => loading

\* C28: isTyping is true whenever a debounce timer is pending.
C28_TypingWhileTimerPending ==
  (phase = "mounted" /\ timers # {}) => isTyping

\* C29: a submit supersedes the pending debounce timer: after the submit no
\* timer is left to start a second fetch when the window is over.
C29_SubmitSupersedesTimer ==
  [][(presses' = presses + 1 /\ issuedBy' = "submit") => timers' = {}]_vars

\* C30: entering the screen starts exactly one fetch.
C30_OneFetchAtMount ==
  issuedBy = "mount" => issued = 1

====
